---- MODULE Spec2Model ----
(***************************************************************************)
(* A model of src/Table.py: the Streamlit script that merges uploaded      *)
(* spreadsheets (Merge Pipeline), derives the summary tables from an       *)
(* edited spreadsheet (Report Pipeline) and stacks the tables on one       *)
(* worksheet (multiple_dfs).                                               *)
(*                                                                         *)
(* A Python string is a sequence of symbols.  File names are sequences of  *)
(* characters; in the report pipeline a symbol is a character or an        *)
(* indivisible piece of a name ("J1", "Client-"), so that str.split and    *)
(* str.startswith are computed and not assumed.  Percentages are integers  *)
(* in hundredths of a percent.  Every cell of the inputs holds a value     *)
(* (pandas' treatment of empty cells is not modelled).                     *)
(***************************************************************************)
EXTENDS Integers, Sequences, FiniteSets, TLC

VARIABLES
    \* ---- Merge Pipeline (lines 130-149)
    uploaded_files,   \* the files of the first uploader: [name, rows]
    dfs,              \* the tables read so far, each with its Entity column set
    combined_df,      \* pd.concat(dfs), once computed
    mpc,              \* "upload" | "loop" | "done"
    \* ---- Report Pipeline (lines 169-228)
    df,               \* the edited table
    Entity_SOV, Publication, Jour_table, j_abt_client, j_abt_comp,
    rpc,              \* "edit" | "loaded" | "sov" | "pub" | "jour" | "done"
    \* ---- multiple_dfs (lines 89-122)
    entity_info,      \* the header text
    df_list,          \* the row count of each table handed over
    ws,               \* the worksheet: the set of <<row, block>> written
    titles,           \* the title row of each table written so far
    current_row,
    bpc               \* "args" | "tables" | "saved"

mergeVars  == <<uploaded_files, dfs, combined_df, mpc>>
reportVars == <<df, Entity_SOV, Publication, Jour_table, j_abt_client, j_abt_comp, rpc>>
bookVars   == <<entity_info, df_list, ws, titles, current_row, bpc>>
vars == <<mergeVars, reportVars, bookVars>>

\* ------------------------------------------------------------------ bounds
MaxFiles == 2
MaxRows == 3
MaxHeader == 7
MaxTables == 2
MaxLen == 2

\* --------------------------------------------------------- generic helpers
RECURSIVE SumSeq(_)
SumSeq(s) == IF s = <<>> THEN 0 ELSE Head(s) + SumSeq(Tail(s))

RECURSIVE Flatten(_)
Flatten(ss) == IF ss = <<>> THEN <<>> ELSE Head(ss) \o Flatten(Tail(ss))

Range(s) == {s[i] : i \in 1..Len(s)}

\* ============================================================ Merge Pipeline
Xlsx == <<".", "x", "l", "s", "x">>
Sep == <<" ", "-", " ">>

\* The names the uploader (type=["xlsx"]) hands over, as character sequences.
FileNames ==
    { <<"A", " ", "-", " ", "x">> \o Xlsx,
      <<"B", " ", "-", " ", "y">> \o Xlsx,
      <<"A">> \o Xlsx,
      <<"A", " ", "-", " ", "x", " ", "-", " ", "y">> \o Xlsx,
      <<"A", ".", "b", " ", "-", " ", "x">> \o Xlsx,
      <<"A", "-", "x">> \o Xlsx,
      <<" ", "-", " ", "x">> \o Xlsx }

\* A row of an uploaded sheet: its own Entity cell and the rest of the row.
NoEntity == <<>>
UploadRows ==
    { [Entity |-> <<"Z">>, Headline |-> "h1"],
      [Entity |-> NoEntity, Headline |-> "h2"] }

RowSeqs(n) == UNION {[1..k -> UploadRows] : k \in 0..n}

\* str.rfind, 1-based: the last index of c in p, 0 when c is not in p.
RFind(p, c) ==
    LET hits == {i \in 1..Len(p) : p[i] = c}
    IN  IF hits = {} THEN 0 ELSE CHOOSE i \in hits : \A j \in hits : j <= i

\* os.path.splitext(p)[0]: p up to its last dot, when that dot comes after the
\* last "/" and after some character that is not a dot; else p.
SplitextRoot(p) ==
    LET sepIndex == RFind(p, "/")
        dotIndex == RFind(p, ".")
    IN  IF /\ dotIndex > sepIndex
           /\ \E k \in (sepIndex + 1)..(dotIndex - 1) : p[k] # "."
        THEN SubSeq(p, 1, dotIndex - 1)
        ELSE p

\* s.split(sep)[0]: s up to the first occurrence of sep, s when there is none.
RECURSIVE SplitHead(_, _)
SplitHead(s, sep) ==
    IF Len(s) < Len(sep) THEN s
    ELSE IF SubSeq(s, 1, Len(sep)) = sep THEN <<>>
    ELSE <<Head(s)>> \o SplitHead(Tail(s), sep)

\* A variant that cuts at the last " - " (rsplit) instead of the first.
EntityNameLastSep(name) ==
    LET stem == SplitextRoot(name)
        hits == {i \in 1..(Len(stem) - 2) : SubSeq(stem, i, i + 2) = Sep}
    IN  IF hits = {} THEN stem
        ELSE SubSeq(stem, 1, (CHOOSE i \in hits : \A j \in hits : j <= i) - 1)

\* lines 142-143
EntityName(name) == SplitHead(SplitextRoot(name), Sep)

\* lines 145-146: read the sheet, then df_["Entity"] = entity_name
TagRows(rows, entity_name) ==
    [i \in 1..Len(rows) |-> [rows[i] EXCEPT !.Entity = entity_name]]

\* A variant that stacks the tables last file first.
ConcatReversed(tables) ==
    IF Len(tables) = 0 THEN <<>>
    ELSE Flatten([i \in 1..Len(tables) |-> tables[Len(tables) + 1 - i]])

\* line 149: pd.concat(dfs, axis=0, ignore_index=True)
Concat(tables) == Flatten(tables)

TotalRows(files) == SumSeq([i \in 1..Len(files) |-> Len(files[i].rows)])

\* line 130: one more file chosen in the uploader
Upload(name, rows) ==
    /\ mpc = "upload"
    /\ Len(uploaded_files) < MaxFiles
    /\ TotalRows(uploaded_files) + Len(rows) <= MaxRows
    /\ uploaded_files' = Append(uploaded_files, [name |-> name, rows |-> rows])
    /\ UNCHANGED <<dfs, combined_df, mpc, reportVars, bookVars>>

\* line 136: the script runs with a non-empty upload
StartMerge ==
    /\ mpc = "upload"
    /\ uploaded_files # <<>>
    /\ mpc' = "loop"
    /\ UNCHANGED <<uploaded_files, dfs, combined_df, reportVars, bookVars>>

\* lines 141-147: one pass of the loop
MergeStep ==
    /\ mpc = "loop"
    /\ Len(dfs) < Len(uploaded_files)
    /\ LET uploaded_file == uploaded_files[Len(dfs) + 1]
       IN  dfs' = Append(dfs, TagRows(uploaded_file.rows, EntityName(uploaded_file.name)))
    /\ UNCHANGED <<uploaded_files, combined_df, mpc, reportVars, bookVars>>

\* line 149
MergeConcat ==
    /\ mpc = "loop"
    /\ Len(dfs) = Len(uploaded_files)
    /\ combined_df' = Concat(dfs)
    /\ mpc' = "done"
    /\ UNCHANGED <<uploaded_files, dfs, reportVars, bookVars>>

\* =========================================================== Report Pipeline
Comma == ","
TotalLabel == <<"Total">>
JournalistCol == <<"Journalist">>
BureauNews == <<"Bureau News">>
NaN == <<"NaN">>          \* the empty cell pandas leaves in an appended row

\* The values of the edited sheet's cells, each list in the order pandas sorts
\* an index (plain string order).
EntityOrder == << <<"Client-", "A">>, <<"Comp-B">>, <<"Comp-C">> >>
PubOrder == <<"P1", "P2">>
JournalistOrder ==
    << BureauNews, <<"J1">>, <<"J1", Comma, "J2">>, <<"J2">> >>
JournalistFields == { BureauNews, <<"J1">>, <<"J1", Comma, "J2">> }

\* The rows of the edited sheet: every combination over the first two
\* entities, and one row on the third.
ReportRows ==
    [Entity : {EntityOrder[1], EntityOrder[2]}, Pub : Range(PubOrder),
     Journalist : JournalistFields]
    \cup [Entity : {EntityOrder[3]}, Pub : {"P2"}, Journalist : {<<"J1">>}]

RECURSIVE SumOver(_, _)
SumOver(f, S) ==
    IF S = {} THEN 0
    ELSE LET x == CHOOSE y \in S : TRUE IN f[x] + SumOver(f, S \ {x})

ColumnSum(tbl, c) == SumSeq([i \in 1..Len(tbl) |-> tbl[i].cnt[c]])
TotalSum(tbl) == SumSeq([i \in 1..Len(tbl) |-> tbl[i].Total])

EntityCols(d) == {d[i].Entity : i \in 1..Len(d)}

\* pd.crosstab(d[field], d['Entity']): one row per value of the field, in index
\* order, one count column per Entity value present.
Crosstab(d, field, order) ==
    LET Present(k) == \E i \in 1..Len(d) : d[i][field] = k
        keys == SelectSeq(order, Present)
    IN  [n \in 1..Len(keys) |->
           [key |-> keys[n],
            cnt |-> [c \in EntityCols(d) |->
                       Cardinality({i \in 1..Len(d) :
                                      d[i][field] = keys[n] /\ d[i].Entity = c})]]]

\* tbl['Total'] = tbl.sum(axis=1)
WithTotal(tbl) ==
    [n \in 1..Len(tbl) |->
       [key |-> tbl[n].key, cnt |-> tbl[n].cnt,
        Total |-> SumOver(tbl[n].cnt, DOMAIN tbl[n].cnt)]]

\* margins=True, margins_name='Total': the row sums and a last row of the
\* column sums.
CrosstabMargins(d, field, order) ==
    LET t == WithTotal(Crosstab(d, field, order))
    IN  Append(t, [key |-> TotalLabel,
                   cnt |-> [c \in EntityCols(d) |-> ColumnSum(t, c)],
                   Total |-> TotalSum(t)])

\* sort_values(by='Total', ascending=False): the default sort is not stable,
\* so rows of equal Total may come out in any order.
RECURSIVE IndexOrders(_)
IndexOrders(S) ==
    IF S = {} THEN {<<>>}
    ELSE UNION {{<<x>> \o p : p \in IndexOrders(S \ {x})} : x \in S}

Arrangements(tbl) ==
    {[i \in 1..Len(tbl) |-> tbl[p[i]]] : p \in IndexOrders(1..Len(tbl))}

SortAscending(tbl) ==
    {s \in Arrangements(tbl) : \A i \in 1..(Len(s) - 1) : s[i].Total <= s[i + 1].Total}

SortDescending(tbl) ==
    {s \in Arrangements(tbl) : \A i \in 1..(Len(s) - 1) : s[i].Total >= s[i + 1].Total}

\* ---------------------------------------------------- Entity_SOV, lines 173-179
RoundHalfEven(num, den) ==
    LET q == num \div den
        r == num % den
    IN  IF 2 * r < den THEN q
        ELSE IF 2 * r > den THEN q + 1
        ELSE IF q % 2 = 0 THEN q ELSE q + 1

\* line 173-174: counts per Entity with the margin row, the margin column dropped
EntityCounts(d) ==
    LET keys == SelectSeq(EntityOrder, LAMBDA e : e \in EntityCols(d))
    IN  [n \in 1..Len(keys) |->
           [Entity |-> keys[n],
            NewsCount |-> Cardinality({i \in 1..Len(d) : d[i].Entity = keys[n]})]]
        \o << [Entity |-> TotalLabel, NewsCount |-> Len(d)] >>

\* A variant that leaves the Total row in the sum.
SumWithTotal(sov) == SumSeq([i \in 1..Len(sov) |-> sov[i].NewsCount])

\* lines 175-176
SumNoTotal(sov) ==
    SumSeq([i \in 1..Len(sov) |->
              IF sov[i].Entity # TotalLabel THEN sov[i].NewsCount ELSE 0])

\* lines 177-178, in hundredths of a percent
EntitySOV(d) ==
    LET sov == EntityCounts(d)
        sum_no_total == SumNoTotal(sov)
    IN  [i \in 1..Len(sov) |->
           [Entity |-> sov[i].Entity,
            NewsCount |-> sov[i].NewsCount,
            Pct |-> IF sov[i].Entity = TotalLabel THEN 10000
                    ELSE RoundHalfEven(sov[i].NewsCount * 10000, sum_no_total)]]

\* --------------------------------------------------- Publication, lines 182-186
\* tbl.loc[label] = row: the row of that label is replaced, or the row is added
LocSet(tbl, row) ==
    IF \E i \in 1..Len(tbl) : tbl[i].key = row.key
    THEN [i \in 1..Len(tbl) |-> IF tbl[i].key = row.key THEN row ELSE tbl[i]]
    ELSE Append(tbl, row)

\* line 185
GrandTotalRow(tbl) ==
    [key |-> "GrandTotal",
     cnt |-> [c \in UNION {DOMAIN tbl[i].cnt : i \in 1..Len(tbl)} |-> ColumnSum(tbl, c)],
     Total |-> TotalSum(tbl)]

\* A variant that sorts ascending.
PublicationOrderWrong(tbl) == SortAscending(tbl)

\* line 184
PublicationOrder(tbl) == SortDescending(tbl)

\* ---------------------------------------------------- Jour_table, lines 187-208
\* str.split(c): the pieces of s between the occurrences of c
RECURSIVE Split(_, _)
Split(s, c) ==
    LET hits == {i \in 1..Len(s) : s[i] = c}
    IN  IF hits = {} THEN <<s>>
        ELSE LET i == CHOOSE h \in hits : \A g \in hits : h <= g
             IN  <<SubSeq(s, 1, i - 1)>> \o Split(SubSeq(s, i + 1, Len(s)), c)

\* lines 188-189
Explode(d) ==
    Flatten([i \in 1..Len(d) |->
               LET parts == Split(d[i].Journalist, Comma)
               IN  [k \in 1..Len(parts) |-> [d[i] EXCEPT !.Journalist = parts[k]]]])

\* line 193: the inner merge on Journalist, the left table's order kept
Merge(jr_tab, newdata) ==
    Flatten([n \in 1..Len(jr_tab) |->
               LET Same(r) == r.Journalist = jr_tab[n].key
                   hits == SelectSeq(newdata, Same)
               IN  [k \in 1..Len(hits) |->
                      [Journalist |-> jr_tab[n].key, cnt |-> jr_tab[n].cnt,
                       Pub |-> hits[k].Pub]]])

\* line 194: drop_duplicates(subset=['Journalist'], keep='first')
DropDuplicates(tbl) ==
    LET First(i) == \A j \in 1..(i - 1) : tbl[j].Journalist # tbl[i].Journalist
        keep == SelectSeq([i \in 1..Len(tbl) |-> i], First)
    IN  [k \in 1..Len(keep) |-> tbl[keep[k]]]

\* lines 190-196
JournalistTable(d) ==
    LET df1 == Explode(d)
        jr_tab == Crosstab(df1, "Journalist", JournalistOrder)
        t == DropDuplicates(Merge(jr_tab, df1))
    IN  [n \in 1..Len(t) |->
           [Journalist |-> t[n].Journalist, Pub |-> t[n].Pub, cnt |-> t[n].cnt,
            Total |-> SumOver(t[n].cnt, DOMAIN t[n].cnt)]]

\* A variant that leaves "Bureau News" where the sort put it.
KeepOrder(tbl) == tbl

\* lines 198-200
PullBureauNews(tbl) ==
    LET IsBN(r) == r.Journalist = BureauNews
        NotBN(r) == r.Journalist # BureauNews
    IN  SelectSeq(tbl, NotBN) \o SelectSeq(tbl, IsBN)

\* line 200, ignore_index=True: the rows are labelled 0, 1, ...
Reindex(tbl) ==
    [i \in 1..Len(tbl) |->
       [index |-> ToString(i - 1), Journalist |-> tbl[i].Journalist,
        Pub |-> tbl[i].Pub, cnt |-> tbl[i].cnt, Total |-> tbl[i].Total]]

\* lines 202 and 206: tbl.loc[label] = tbl.sum(numeric_only=True, axis=0), the
\* sum over every row the table holds at that point
AppendSums(tbl, label) ==
    Append(tbl,
           [index |-> label, Journalist |-> NaN, Pub |-> "NaN",
            cnt |-> [c \in UNION {DOMAIN tbl[i].cnt : i \in 1..Len(tbl)} |->
                       ColumnSum(tbl, c)],
            Total |-> TotalSum(tbl)])

JourTable(sorted) ==
    AppendSums(AppendSums(Reindex(PullBureauNews(sorted)), "GrandTotal"), "Total")

\* ------------------------------------- j_abt_client, j_abt_comp, lines 215-228
StartsWith(col, prefix) == Len(col) >= 1 /\ col[1] = prefix

\* crosstab.columns after to_records
Columns(d) == {JournalistCol} \cup EntityCols(d) \cup {TotalLabel}

\* lines 217-218
client_cols(d) == {col \in Columns(d) : StartsWith(col, "Client-")}
competitor_cols(d) ==
    {col \in Columns(d) : col \notin {JournalistCol, TotalLabel}
                          /\ ~StartsWith(col, "Client-")}

\* a mask is a Python bool or a boolean Series
Scalar(b) == [scalar |-> TRUE, val |-> b]
Series(f) == [scalar |-> FALSE, val |-> f]

RowSum(row, cols) == SumOver(row.cnt, cols)

\* lines 219-220, 225-226
mask_client_positive(ct, d) ==
    IF client_cols(d) # {}
    THEN Series([i \in 1..Len(ct) |-> RowSum(ct[i], client_cols(d)) # 0])
    ELSE Scalar(FALSE)
mask_competitors_zero(ct, d) ==
    IF competitor_cols(d) # {}
    THEN Series([i \in 1..Len(ct) |-> RowSum(ct[i], competitor_cols(d)) = 0])
    ELSE Scalar(TRUE)
mask_client_zero(ct, d) ==
    IF client_cols(d) # {}
    THEN Series([i \in 1..Len(ct) |-> RowSum(ct[i], client_cols(d)) = 0])
    ELSE Scalar(TRUE)
mask_competitor_positive(ct, d) ==
    IF competitor_cols(d) # {}
    THEN Series([i \in 1..Len(ct) |-> RowSum(ct[i], competitor_cols(d)) # 0])
    ELSE Scalar(FALSE)

\* A variant: a | b in place of a & b.
MaskOr(a, b) ==
    CASE a.scalar /\ b.scalar -> Scalar(a.val \/ b.val)
      [] a.scalar /\ ~b.scalar -> Series([i \in DOMAIN b.val |-> a.val \/ b.val[i]])
      [] ~a.scalar /\ b.scalar -> Series([i \in DOMAIN a.val |-> a.val[i] \/ b.val])
      [] OTHER -> Series([i \in DOMAIN a.val |-> a.val[i] \/ b.val[i]])

\* a & b, a bool broadcast over a Series
MaskAnd(a, b) ==
    CASE a.scalar /\ b.scalar -> Scalar(a.val /\ b.val)
      [] a.scalar /\ ~b.scalar -> Series([i \in DOMAIN b.val |-> a.val /\ b.val[i]])
      [] ~a.scalar /\ b.scalar -> Series([i \in DOMAIN a.val |-> a.val[i] /\ b.val])
      [] OTHER -> Series([i \in DOMAIN a.val |-> a.val[i] /\ b.val[i]])

\* crosstab[mask] with a boolean Series.  (A bare bool is a KeyError; both masks
\* are bare only when the table has no Entity column at all, which a sheet
\* with a row never gives.)
Filter(ct, mask) ==
    LET Kept(i) == mask.val[i]
        keep == SelectSeq([i \in 1..Len(ct) |-> i], Kept)
    IN  [k \in 1..Len(keep) |-> ct[keep[k]]]

\* lines 215-221 and 223-227
JAbtClient(d) ==
    LET crosstab == CrosstabMargins(d, "Journalist", JournalistOrder)
    IN  Filter(crosstab, MaskAnd(mask_client_positive(crosstab, d),
                                 mask_competitors_zero(crosstab, d)))
JAbtComp(d) ==
    LET crosstab1 == CrosstabMargins(d, "Journalist", JournalistOrder)
    IN  Filter(crosstab1, MaskAnd(mask_client_zero(crosstab1, d),
                                  mask_competitor_positive(crosstab1, d)))

\* ------------------------------------------------------------------ actions
\* one more row typed into the edited sheet, before it is uploaded
EditRow(row) ==
    /\ rpc = "edit"
    /\ Len(df) < MaxRows
    /\ df' = Append(df, row)
    /\ UNCHANGED <<Entity_SOV, Publication, Jour_table, j_abt_client, j_abt_comp,
                   rpc, mergeVars, bookVars>>

\* lines 169-171
ReadEdited ==
    /\ rpc = "edit"
    /\ df # <<>>
    /\ rpc' = "loaded"
    /\ UNCHANGED <<df, Entity_SOV, Publication, Jour_table, j_abt_client, j_abt_comp,
                   mergeVars, bookVars>>

\* lines 173-179
ComputeEntitySOV ==
    /\ rpc = "loaded"
    /\ Entity_SOV' = EntitySOV(df)
    /\ rpc' = "sov"
    /\ UNCHANGED <<df, Publication, Jour_table, j_abt_client, j_abt_comp,
                   mergeVars, bookVars>>

\* lines 182-186
ComputePublication ==
    /\ rpc = "sov"
    /\ \E sorted \in PublicationOrder(WithTotal(Crosstab(df, "Pub", PubOrder))) :
          Publication' = LocSet(sorted, GrandTotalRow(sorted))
    /\ rpc' = "pub"
    /\ UNCHANGED <<df, Entity_SOV, Jour_table, j_abt_client, j_abt_comp,
                   mergeVars, bookVars>>

\* lines 187-208
ComputeJournalist ==
    /\ rpc = "pub"
    /\ \E sorted \in SortDescending(JournalistTable(df)) :
          Jour_table' = JourTable(sorted)
    /\ rpc' = "jour"
    /\ UNCHANGED <<df, Entity_SOV, Publication, j_abt_client, j_abt_comp,
                   mergeVars, bookVars>>

\* lines 215-228
ComputeClientComp ==
    /\ rpc = "jour"
    /\ j_abt_client' \in SortDescending(JAbtClient(df))
    /\ j_abt_comp' \in SortDescending(JAbtComp(df))
    /\ rpc' = "done"
    /\ UNCHANGED <<df, Entity_SOV, Publication, Jour_table, mergeVars, bookVars>>

\* ============================================================== multiple_dfs
Newline == "\n"
HeaderSymbols == {"t", Newline}

\* line 104
HeaderOffset == 6

\* The blocks of the sheet: the header, and one per table.
HeaderBlock == "header"
TableBlock(k) == ToString(k)

\* lines 18-20: one row per line of the text, from start_row
add_entity_info(entity_text, start_row) ==
    LET lines == Split(entity_text, Newline)
    IN  {[row |-> start_row + i - 1, block |-> HeaderBlock, part |-> "header"] :
            i \in 1..Len(lines)}

\* lines 45-46, 58-61, 72-76: the title row, the column names, the data rows
add_styling_to_worksheet(k, nrows, start_row) ==
    LET header_row == start_row + 1
        data_start_row == header_row + 1
        b == TableBlock(k)
    IN  {[row |-> start_row, block |-> b, part |-> "title"],
         [row |-> header_row, block |-> b, part |-> "columns"]}
        \cup {[row |-> data_start_row + i - 1, block |-> b, part |-> "data"] :
                 i \in 1..nrows}

\* A variant that does not count the title and the column-name rows.
AdvanceNoTitle(row, nrows) == row + nrows + 2

\* lines 112 and 115
Advance(row, nrows) == (row + (nrows + 2)) + 2

\* one more symbol of the header text handed to multiple_dfs
TypeHeader(sym) ==
    /\ bpc = "args"
    /\ Len(entity_info) < MaxHeader
    /\ entity_info' = Append(entity_info, sym)
    /\ UNCHANGED <<df_list, ws, titles, current_row, bpc, mergeVars, reportVars>>

\* one more (table, comment) pair handed to multiple_dfs
AddTable(nrows) ==
    /\ bpc = "args"
    /\ Len(df_list) < MaxTables
    /\ df_list' = Append(df_list, nrows)
    /\ UNCHANGED <<entity_info, ws, titles, current_row, bpc, mergeVars, reportVars>>

\* lines 94-104
WriteHeader ==
    /\ bpc = "args"
    /\ ws' = add_entity_info(entity_info, 1)
    /\ current_row' = 1 + HeaderOffset
    /\ bpc' = "tables"
    /\ UNCHANGED <<entity_info, df_list, titles, mergeVars, reportVars>>

\* lines 107-115: one pass of the loop
WriteTable ==
    /\ bpc = "tables"
    /\ Len(titles) < Len(df_list)
    /\ LET k == Len(titles) + 1
       IN  /\ ws' = ws \cup add_styling_to_worksheet(k, df_list[k], current_row)
           /\ current_row' = Advance(current_row, df_list[k])
    /\ titles' = Append(titles, current_row)
    /\ UNCHANGED <<entity_info, df_list, bpc, mergeVars, reportVars>>

\* lines 118-122
Save ==
    /\ bpc = "tables"
    /\ Len(titles) = Len(df_list)
    /\ bpc' = "saved"
    /\ UNCHANGED <<entity_info, df_list, ws, titles, current_row, mergeVars, reportVars>>

\* ============================================================ specifications
Init ==
    /\ uploaded_files = <<>> /\ dfs = <<>> /\ combined_df = <<>> /\ mpc = "upload"
    /\ df = <<>> /\ Entity_SOV = <<>> /\ Publication = <<>> /\ Jour_table = <<>>
    /\ j_abt_client = <<>> /\ j_abt_comp = <<>> /\ rpc = "edit"
    /\ entity_info = <<>> /\ df_list = <<>> /\ ws = {} /\ titles = <<>>
    /\ current_row = 1 /\ bpc = "args"

NextMerge ==
    \/ \E name \in FileNames, rows \in RowSeqs(MaxRows) : Upload(name, rows)
    \/ StartMerge
    \/ MergeStep
    \/ MergeConcat

NextReport ==
    \/ \E row \in ReportRows : EditRow(row)
    \/ ReadEdited
    \/ ComputeEntitySOV
    \/ ComputePublication
    \/ ComputeJournalist
    \/ ComputeClientComp

NextBook ==
    \/ \E sym \in HeaderSymbols : TypeHeader(sym)
    \/ \E nrows \in 0..MaxLen : AddTable(nrows)
    \/ WriteHeader
    \/ WriteTable
    \/ Save

SpecMerge == Init /\ [][NextMerge]_vars
SpecReport == Init /\ [][NextReport]_vars
SpecBook == Init /\ [][NextBook]_vars

\* ==================================================================== claims
Abs(x) == IF x < 0 THEN -x ELSE x

\* ------------------------------------------------------------ Merge Pipeline
\* The name without its ".xlsx" extension.
Stem(name) == SubSeq(name, 1, Len(name) - Len(Xlsx))

SepAt(s, i) == i + Len(Sep) - 1 <= Len(s) /\ SubSeq(s, i, i + Len(Sep) - 1) = Sep

\* e is s cut before the first occurrence of " - ", all of s when there is none.
CutBeforeFirstSep(e, s) ==
    \E k \in 0..Len(s) :
        /\ e = SubSeq(s, 1, k)
        /\ \A i \in 1..k : ~SepAt(s, i)
        /\ k = Len(s) \/ SepAt(s, k + 1)

\* The number of rows the files before file f contribute.
Offset(f) == TotalRows(SubSeq(uploaded_files, 1, f - 1))

NameA == <<"A", " ", "-", " ", "x">> \o Xlsx
NameB == <<"B", " ", "-", " ", "y">> \o Xlsx

\* C1: every row a file contributes to the combined table carries as Entity the
\* file's name without its extension, cut before the first " - " (the whole
\* stem when there is none), whatever Entity the row had in the file; the two
\* one-row files "A - x.xlsx", "B - y.xlsx" give the Entity values "A", "B".
C1_EntityFromFileName ==
    mpc = "done" =>
        /\ \A f \in 1..Len(uploaded_files) :
              \A r \in 1..Len(uploaded_files[f].rows) :
                  /\ Offset(f) + r <= Len(combined_df)
                  /\ CutBeforeFirstSep(combined_df[Offset(f) + r].Entity,
                                       Stem(uploaded_files[f].name))
        /\ ( /\ Len(uploaded_files) = 2
             /\ uploaded_files[1].name = NameA /\ uploaded_files[2].name = NameB
             /\ Len(uploaded_files[1].rows) = 1 /\ Len(uploaded_files[2].rows) = 1 )
           => [i \in 1..Len(combined_df) |-> combined_df[i].Entity] = << <<"A">>, <<"B">> >>

\* C1 witness: the merge is done over the files "A - x.xlsx" and "B - y.xlsx",
\* one row each, the first row with an Entity of its own in the file.
C1_Witness ==
    /\ mpc = "done"
    /\ Len(uploaded_files) = 2
    /\ uploaded_files[1].name = NameA /\ uploaded_files[2].name = NameB
    /\ Len(uploaded_files[1].rows) = 1 /\ Len(uploaded_files[2].rows) = 1
    /\ uploaded_files[1].rows[1].Entity = <<"Z">>
    /\ combined_df[1].Entity = <<"A">> /\ combined_df[2].Entity = <<"B">>

\* C2: the combined table is the files' rows in upload order, each file's rows
\* in their own order: as many rows as the files hold together, none dropped,
\* repeated or moved.
C2_ConcatInOrder ==
    mpc = "done" =>
        /\ Len(combined_df) = TotalRows(uploaded_files)
        /\ \A f \in 1..Len(uploaded_files) :
              \A r \in 1..Len(uploaded_files[f].rows) :
                  /\ Offset(f) + r <= Len(combined_df)
                  /\ combined_df[Offset(f) + r].Headline
                       = uploaded_files[f].rows[r].Headline

\* C2 witness: two files merged, the first with two different rows, the second
\* with a row that differs from the first file's last row.
C2_Witness ==
    /\ mpc = "done"
    /\ Len(uploaded_files) = 2
    /\ Len(uploaded_files[1].rows) = 2 /\ Len(uploaded_files[2].rows) = 1
    /\ uploaded_files[1].rows[1].Headline # uploaded_files[1].rows[2].Headline
    /\ uploaded_files[2].rows[1].Headline # uploaded_files[1].rows[2].Headline
    /\ Len(combined_df) = 3

\* ----------------------------------------------------------- Report Pipeline
\* The individual journalists of the sheet, and their counts per Entity over
\* the exploded rows.
Individuals(d) ==
    UNION {Range(Split(d[i].Journalist, Comma)) : i \in 1..Len(d)}

RECURSIVE Occurrences(_, _)
Occurrences(parts, j) ==
    IF parts = <<>> THEN 0
    ELSE (IF Head(parts) = j THEN 1 ELSE 0) + Occurrences(Tail(parts), j)

ExplodedCount(d, j, e) ==
    SumSeq([i \in 1..Len(d) |->
              IF d[i].Entity = e THEN Occurrences(Split(d[i].Journalist, Comma), j)
              ELSE 0])

OverExploded(key, cnt) ==
    /\ key \in Individuals(df)
    /\ Comma \notin Range(key)
    /\ \A e \in DOMAIN cnt : cnt[e] = ExplodedCount(df, key, e)

JourData == SubSeq(Jour_table, 1, Len(Jour_table) - 2)

\* C3: every journalist-keyed pivot (the Journalist Table, the client-only and
\* the competitor-only table) is computed over the exploded rows: each of its
\* rows, the margin rows aside, is keyed by one journalist and counts that
\* journalist's exploded rows; none is keyed by an unsplit "J1,J2".
C3_PivotsOverExploded ==
    rpc = "done" =>
        /\ \A i \in 1..Len(JourData) :
              OverExploded(JourData[i].Journalist, JourData[i].cnt)
        /\ \A i \in 1..Len(j_abt_client) :
              j_abt_client[i].key # TotalLabel
                 => OverExploded(j_abt_client[i].key, j_abt_client[i].cnt)
        /\ \A i \in 1..Len(j_abt_comp) :
              j_abt_comp[i].key # TotalLabel
                 => OverExploded(j_abt_comp[i].key, j_abt_comp[i].cnt)

\* C4: in the Journalist Table the GrandTotal row and the Total row hold the
\* same values: in every count column and in Total, the sum over the
\* journalist rows alone.
C4_GrandTotalEqualsTotal ==
    rpc \in {"jour", "done"} =>
        LET n == Len(Jour_table)
            gt == Jour_table[n - 1]
            tot == Jour_table[n]
        IN  /\ gt.index = "GrandTotal" /\ tot.index = "Total"
            /\ \A c \in DOMAIN gt.cnt :
                  /\ gt.cnt[c] = ColumnSum(JourData, c)
                  /\ tot.cnt[c] = ColumnSum(JourData, c)
            /\ gt.Total = TotalSum(JourData)
            /\ tot.Total = TotalSum(JourData)

\* C5: in the Journalist Table, when a journalist named exactly "Bureau News"
\* is present, its row is the last data row (right before GrandTotal and
\* Total) whatever its Total, and the other rows come before it in
\* non-increasing order of Total.
C5_BureauNewsLast ==
    rpc \in {"jour", "done"} =>
        LET m == Len(JourData)
        IN  /\ Jour_table[m + 1].index = "GrandTotal"
            /\ Jour_table[m + 2].index = "Total"
            /\ \A i \in 1..m : JourData[i].index \notin {"GrandTotal", "Total"}
            /\ BureauNews \in Individuals(df) =>
                  /\ JourData[m].Journalist = BureauNews
                  /\ \A i \in 1..(m - 1) : JourData[i].Journalist # BureauNews
                  /\ \A i \in 1..(m - 2) : JourData[i].Total >= JourData[i + 1].Total

\* C5 witness: Bureau News is last although its Total is larger than that of
\* the row before it.
C5_Witness ==
    /\ rpc = "done"
    /\ Len(JourData) >= 2
    /\ JourData[Len(JourData)].Journalist = BureauNews
    /\ JourData[Len(JourData)].Total > JourData[Len(JourData) - 1].Total

\* The journalists of the sheet as the Journalist column names them, and the
\* rows of each on an Entity that is not a "Client-" one.
CompetitorCount(d, j) ==
    Cardinality({i \in 1..Len(d) :
                   d[i].Journalist = j /\ ~StartsWith(d[i].Entity, "Client-")})

Keys(tbl) == {tbl[i].key : i \in 1..Len(tbl)}

\* C6: when no Entity starts with "Client-", the client-only table is empty and
\* the competitor-only table holds exactly the journalists whose competitor
\* count is not zero, one row each and no other row.
C6_NoClientColumns ==
    (rpc = "done" /\ \A i \in 1..Len(df) : ~StartsWith(df[i].Entity, "Client-")) =>
        /\ j_abt_client = <<>>
        /\ Keys(j_abt_comp)
             = {df[i].Journalist : i \in {k \in 1..Len(df) :
                                            CompetitorCount(df, df[k].Journalist) # 0}}
        /\ Len(j_abt_comp) = Cardinality(Keys(j_abt_comp))

HasBothKinds ==
    /\ \E i \in 1..Len(df) : StartsWith(df[i].Entity, "Client-")
    /\ \E i \in 1..Len(df) : ~StartsWith(df[i].Entity, "Client-")

\* C7: with at least one "Client-" Entity column and at least one other, no row
\* key is in both the client-only and the competitor-only table.
C7_Disjoint ==
    (rpc = "done" /\ HasBothKinds) => Keys(j_abt_client) \cap Keys(j_abt_comp) = {}

\* C7 witness: both kinds of column are present and both tables hold a row.
C7_Witness ==
    /\ rpc = "done"
    /\ HasBothKinds
    /\ j_abt_client # <<>>
    /\ j_abt_comp # <<>>

SovEntities == SubSeq(Entity_SOV, 1, Len(Entity_SOV) - 1)

\* C8: in the Entity share-of-voice table the Total row's count is the sum of
\* the entities' counts and its % is exactly 100; each entity's % is its count
\* over that sum, times 100, rounded to 2 decimals, so the entities' % add up
\* to 100 within 0.01 per entity row.  (% in hundredths of a percent.)
C8_ShareOfVoice ==
    rpc \in {"sov", "pub", "jour", "done"} =>
        LET tot == Entity_SOV[Len(Entity_SOV)]
            n == Len(SovEntities)
            sum == SumSeq([i \in 1..n |-> SovEntities[i].NewsCount])
        IN  /\ tot.Entity = TotalLabel
            /\ tot.NewsCount = sum
            /\ tot.Pct = 10000
            /\ \A i \in 1..n :
                  /\ SovEntities[i].Entity # TotalLabel
                  /\ SovEntities[i].NewsCount
                       = Cardinality({k \in 1..Len(df) : df[k].Entity = SovEntities[i].Entity})
                  /\ 2 * Abs(SovEntities[i].Pct * sum - SovEntities[i].NewsCount * 10000)
                       <= sum
            /\ Abs(SumSeq([i \in 1..n |-> SovEntities[i].Pct]) - 10000) <= n

\* C8 witness: three entities with a third of the rows each, 33.33 % each, so
\* that the % add up to 99.99.
C8_Witness ==
    /\ rpc = "done"
    /\ Len(SovEntities) = 3
    /\ \A i \in 1..3 : SovEntities[i].Pct = 3333
    /\ Entity_SOV[4].Pct = 10000

PubData == SubSeq(Publication, 1, Len(Publication) - 1)

HeaderLines == Len(Split(entity_info, Newline))

Rows(b) == {w.row : w \in {x \in ws : x.block = b}}

\* No worksheet row is written by two blocks; the header is on rows 1.. one per
\* line; the first title is below the header; table k is on the rows from its
\* title to its last data row, and the next title is (rows of table k) + 4
\* further down.
Layout ==
    bpc \in {"tables", "saved"} =>
        /\ \A v, w \in ws : v.row = w.row => v.block = w.block
        /\ Rows(HeaderBlock) = 1..HeaderLines
        /\ \A k \in 1..Len(titles) :
              /\ \A r \in Rows(HeaderBlock) : titles[1] > r
              /\ Rows(TableBlock(k)) = titles[k]..(titles[k] + df_list[k] + 1)
              /\ k < Len(titles) =>
                    /\ titles[k + 1] = titles[k] + df_list[k] + 4
                    /\ \A r \in Rows(TableBlock(k)) : r < titles[k + 1]

\* C10 as stated: for any header text and any list of (table, comment) pairs
\* the blocks of the worksheet share no row and are laid out as above.
C10_NoSharedRow == Layout

\* C10 amended: the same for any header text of at most six lines.
C10_NoSharedRowShortHeader == HeaderLines <= HeaderOffset => Layout

\* C10 witness: a header of exactly six lines and two tables with rows, saved.
C10_Witness ==
    /\ bpc = "saved"
    /\ HeaderLines = HeaderOffset
    /\ Len(titles) = 2
    /\ df_list[1] >= 1 /\ df_list[2] >= 1
    /\ titles[1] = 7

====
